---- MODULE Spec2Model ----
(***************************************************************************)
(* Model of crates/chain/src/local_chain.rs: the CheckPoint list, the      *)
(* LocalChain (tip, index, birthday), its constructors and mutators, and   *)
(* merge_chains.                                                           *)
(*                                                                         *)
(* Representation.                                                         *)
(*  - a BlockId is a record [height, hash];                                *)
(*  - a CheckPoint (a handle to a node of the linked list) is the sequence *)
(*    of the BlockIds of its nodes from the root to the node, in the order *)
(*    of the prev links read backwards (ascending height);                 *)
(*  - a BTreeMap is a function whose DOMAIN is its key set;                *)
(*  - a ChangeSet value is a hash (Some(hash)) or NoneHash (None);         *)
(*  - Arc pointer identity between the nodes of an update and the nodes of *)
(*    the chain's tip is the number `shared` of root-most nodes the two    *)
(*    lists have in common (a shared node shares its whole tail);          *)
(*  - debug_assert! is compiled out (release build); expect() and          *)
(*    unreachable!() are modelled as the outcome "Panic".                  *)
(***************************************************************************)
EXTENDS Integers, Sequences, FiniteSets, TLC

\* ------------------------------------------------------------------ bounds
MaxHeight == 2
NumHashes == 2
MaxUpdateLen == 2
MaxChangeSetLen == 1

Heights == 0..MaxHeight
Hashes == 1..NumHashes
BlockIds == [height : Heights, hash : Hashes]

\* Option<BlockHash>::None as a ChangeSet value
NoneHash == 0

\* ------------------------------------------------------- BTreeMap helpers
EmptyMap == [x \in {} |-> 0]

MapInsert(m, k, v) == [x \in (DOMAIN m) \cup {k} |-> IF x = k THEN v ELSE m[x]]

MapRemove(m, k) == [x \in (DOMAIN m) \ {k} |-> m[x]]

MapGet(m, k) == IF k \in DOMAIN m THEN m[k] ELSE NoneHash

\* BTreeMap::split_off(&k): the receiver keeps the keys below k ...
SplitOffKeep(m, k) == [x \in {y \in DOMAIN m : y < k} |-> m[x]]

\* ... and the keys at or above k are returned
SplitOffReturn(m, k) == [x \in {y \in DOMAIN m : y >= k} |-> m[x]]

\* the entries of f whose value is not `absent`
Restrict(f, absent) == [h \in {x \in DOMAIN f : f[x] # absent} |-> f[h]]

MinOf(S) == CHOOSE x \in S : \A y \in S : x <= y

\* iteration of a BTreeMap<u32, BlockHash> in key order, mapped to BlockIds
RECURSIVE MapToBlockIds(_)
MapToBlockIds(m) ==
    IF DOMAIN m = {} THEN << >>
    ELSE LET k == MinOf(DOMAIN m)
         IN  <<[height |-> k, hash |-> m[k]]>> \o MapToBlockIds(MapRemove(m, k))

\* ------------------------------------------------------------- CheckPoint
CheckPointNew(block) == <<block>>

CheckPointHeight(cp) == cp[Len(cp)].height

push(cp, block) ==
    IF CheckPointHeight(cp) < block.height
    THEN [ok |-> TRUE, cp |-> Append(cp, block)]
    ELSE [ok |-> FALSE, cp |-> cp]

RECURSIVE extend_from(_, _, _)
extend_from(self, curr, blocks) ==
    IF blocks = << >> THEN [ok |-> TRUE, cp |-> curr]
    ELSE LET r == push(curr, Head(blocks))
         IN  IF r.ok THEN extend_from(self, r.cp, Tail(blocks))
             ELSE [ok |-> FALSE, cp |-> self]

extend(self, blocks) == extend_from(self, self, blocks)

RECURSIVE from_block_ids_fold(_, _)
from_block_ids_fold(acc, blocks) ==
    IF blocks = << >> THEN [ok |-> TRUE, cp |-> acc]
    ELSE LET r == push(acc, Head(blocks))
         IN  IF r.ok THEN from_block_ids_fold(r.cp, Tail(blocks))
             ELSE [ok |-> FALSE, cp |-> r.cp]

\* Err(None) on an empty iterator is the failure with the empty handle << >>
from_block_ids(blocks) ==
    IF blocks = << >> THEN [ok |-> FALSE, cp |-> << >>]
    ELSE from_block_ids_fold(CheckPointNew(Head(blocks)), Tail(blocks))

\* the (height, hash) pairs yielded by CheckPoint::iter, collected in a map
TipHistory(cp) ==
    [h \in {cp[i].height : i \in 1..Len(cp)} |->
        (CHOOSE b \in {cp[i] : i \in 1..Len(cp)} : b.height = h).hash]

\* ----------------------------------------------------------- merge_chains
CannotConnectError(h) == [kind |-> "CannotConnectError", try_include_height |-> h]

MergeOk(cs) == [kind |-> "Ok", changeset |-> cs]
MergeErr(h) == [kind |-> "Err", err |-> CannotConnectError(h)]
MergePanic == [kind |-> "Panic"]

\* CheckPointIter::next on a cursor: the iterator is the position of the node
\* it yields next (0 once exhausted)
IterNext(it) == IF it > 0 THEN it - 1 ELSE 0

\* curr_orig.as_ref() / curr_update.as_ref(): None, or the block of the node
\* the cursor holds
NoCursor == [some |-> FALSE]

SomeCursor(block) == [some |-> TRUE, block |-> block]

Cursor(cp, i) == IF i = 0 THEN NoCursor ELSE SomeCursor(cp[i])

\* Some(a.height()) > b.map(|b| b.height()): None is below every Some
HeightAbove(a, b) == a.some /\ (~b.some \/ a.block.height > b.block.height)

\* the match with guards that compare only two present blocks
MatchArm_both_present(o, u) ==
    IF o.some /\ u.some /\ u.block.height > o.block.height THEN "update_only"
    ELSE IF o.some /\ u.some /\ o.block.height > u.block.height THEN "original_only"
    ELSE IF o.some /\ u.some THEN "both"
    ELSE IF ~o.some /\ ~u.some THEN "none"
    ELSE "unreachable"

\* match (curr_orig.as_ref(), curr_update.as_ref()): the arm that runs, the
\* first whose pattern and guard hold
MatchArm(o, u) ==
    IF u.some /\ HeightAbove(u, o) THEN "update_only"
    ELSE IF o.some /\ HeightAbove(o, u) THEN "original_only"
    ELSE IF o.some /\ u.some THEN "both"
    ELSE IF ~o.some /\ ~u.some THEN "none"
    ELSE "unreachable"

\* the same allocation judged by the position in the list alone
PtrEq_by_position(oi, ui, shared) == oi = ui

\* Arc::as_ptr(&o.0) == Arc::as_ptr(&u.0): node oi of the original list and
\* node ui of the update list are the same allocation
PtrEq(oi, ui, shared) == oi = ui /\ ui <= shared

\* the potentially invalidated heights forgotten instead of recorded
DrainInvalidated_forgets(cs, heights) == cs

\* changeset.insert(h, None) for every drained height
RECURSIVE DrainInvalidated(_, _)
DrainInvalidated(cs, heights) ==
    IF heights = << >> THEN cs
    ELSE DrainInvalidated(MapInsert(cs, Head(heights), NoneHash), Tail(heights))

\* merge_final with the check for a found point of agreement left out
merge_final_ignores_agreement(orig, s) ==
    IF ~s.prev_orig_was_invalidated /\ s.prev_orig # 0
    THEN MergeErr(orig[s.prev_orig].height)
    ELSE MergeOk(s.changeset)

\* merge_final reporting the first height that was pushed onto
\* potentially_invalidated_heights instead of prev_orig's
merge_final_first_invalidated(orig, s) ==
    IF ~s.prev_orig_was_invalidated /\ ~s.point_of_agreement_found /\ s.prev_orig # 0
    THEN MergeErr(IF s.potentially_invalidated_heights # << >>
                  THEN Head(s.potentially_invalidated_heights)
                  ELSE orig[s.prev_orig].height)
    ELSE MergeOk(s.changeset)

\* the connectivity check after the loop
merge_final(orig, s) ==
    IF ~s.prev_orig_was_invalidated /\ ~s.point_of_agreement_found /\ s.prev_orig # 0
    THEN MergeErr(orig[s.prev_orig].height)
    ELSE MergeOk(s.changeset)

\* the ambiguity check at a candidate point of agreement
\* the check repeated at every agreement, an earlier one notwithstanding
AgreementIsAmbiguous_every_time(s) ==
    /\ ~s.prev_orig_was_invalidated
    /\ s.prev_orig # 0
    /\ s.prev_update # 0

AgreementIsAmbiguous(s) ==
    /\ ~s.prev_orig_was_invalidated
    /\ ~s.point_of_agreement_found
    /\ s.prev_orig # 0
    /\ s.prev_update # 0

\* the return at a point of agreement taken only for the same allocation
StopAtAgreement_pointer_only(introduce_older_blocks, oi, ui, shared) ==
    PtrEq(oi, ui, shared)

\* the return at a point of agreement taken whatever the flag says
StopAtAgreement_always(introduce_older_blocks, oi, ui, shared) ==
    introduce_older_blocks \/ ~introduce_older_blocks \/ PtrEq(oi, ui, shared)

\* OPTIMIZATION 1 and 2: the return at a point of agreement
StopAtAgreement(introduce_older_blocks, oi, ui, shared) ==
    ~introduce_older_blocks \/ PtrEq(oi, ui, shared)

\* one pass of `loop { ... }`; cursors are positions in the lists, 0 = None
RECURSIVE merge_loop(_, _, _, _, _)
merge_loop(orig, update, shared, introduce_older_blocks, s0) ==
    LET co == IF s0.curr_orig = 0 THEN s0.orig_it ELSE s0.curr_orig
        cu == IF s0.curr_update = 0 THEN s0.update_it ELSE s0.curr_update
        s  == [s0 EXCEPT !.curr_orig = co,
                         !.curr_update = cu,
                         !.orig_it = IF s0.curr_orig = 0 THEN IterNext(@) ELSE @,
                         !.update_it = IF s0.curr_update = 0 THEN IterNext(@) ELSE @]
        arm == MatchArm(Cursor(orig, co), Cursor(update, cu))
    IN
    IF arm = "update_only"
    THEN \* update block that doesn't exist in the original chain
        merge_loop(orig, update, shared, introduce_older_blocks,
            [s EXCEPT !.changeset = MapInsert(@, update[cu].height, update[cu].hash),
                      !.prev_update = cu,
                      !.curr_update = 0])
    ELSE IF arm = "original_only"
    THEN \* original block that isn't in the update
        LET s2 == [s EXCEPT !.potentially_invalidated_heights = Append(@, orig[co].height),
                            !.prev_orig_was_invalidated = FALSE,
                            !.prev_orig = co,
                            !.curr_orig = 0]
        IN  IF cu = 0 THEN merge_final(orig, s2)
            ELSE merge_loop(orig, update, shared, introduce_older_blocks, s2)
    ELSE IF arm = "both"
    THEN IF orig[co].hash = update[cu].hash
         THEN IF AgreementIsAmbiguous(s)
              THEN MergeErr(orig[s.prev_orig].height)
              ELSE IF StopAtAgreement(introduce_older_blocks, co, cu, shared)
                   THEN MergeOk(s.changeset)
                   ELSE merge_loop(orig, update, shared, introduce_older_blocks,
                            [s EXCEPT !.point_of_agreement_found = TRUE,
                                      !.prev_orig_was_invalidated = FALSE,
                                      !.prev_update = cu,
                                      !.prev_orig = co,
                                      !.curr_update = 0,
                                      !.curr_orig = 0])
         ELSE merge_loop(orig, update, shared, introduce_older_blocks,
                  [s EXCEPT !.changeset =
                                DrainInvalidated(
                                    MapInsert(@, update[cu].height, update[cu].hash),
                                    s.potentially_invalidated_heights),
                            !.potentially_invalidated_heights = << >>,
                            !.prev_orig_was_invalidated = TRUE,
                            !.prev_update = cu,
                            !.prev_orig = co,
                            !.curr_update = 0,
                            !.curr_orig = 0])
    ELSE IF arm = "none"
    THEN merge_final(orig, s)
    ELSE MergePanic

\* merge_chains(original_tip, update_tip, introduce_older_blocks); `shared`
\* carries the pointer identity of the two lists' nodes
merge_chains(original_tip, update_tip, shared, introduce_older_blocks) ==
    merge_loop(original_tip, update_tip, shared, introduce_older_blocks,
        [changeset |-> EmptyMap,
         orig_it |-> Len(original_tip),
         update_it |-> Len(update_tip),
         curr_orig |-> 0,
         curr_update |-> 0,
         prev_orig |-> 0,
         prev_update |-> 0,
         point_of_agreement_found |-> FALSE,
         prev_orig_was_invalidated |-> FALSE,
         potentially_invalidated_heights |-> << >>])

\* ------------------------------------------------------------- LocalChain
MissingGenesisError == [kind |-> "MissingGenesisError"]

AlterCheckPointError(height, original_hash, update_hash) ==
    [kind |-> "AlterCheckPointError", height |-> height,
     original_hash |-> original_hash, update_hash |-> update_hash]

InconsistentBlocks == [kind |-> "InconsistentBlocks"]

NoError == [kind |-> "none"]

\* Result<_, _> of the LocalChain operations: the chain after the call, the
\* returned ChangeSet (Ok) or the error (Err)
Ok(chain, changeset) == [kind |-> "Ok", chain |-> chain, changeset |-> changeset, err |-> NoError]
Err(chain, err) == [kind |-> "Err", chain |-> chain, changeset |-> EmptyMap, err |-> err]
Panic(chain) == [kind |-> "Panic", chain |-> chain, changeset |-> EmptyMap, err |-> NoError]

genesis_hash(chain) == chain.index[0]

\* initial_changeset read off the checkpoint list instead of the index
initial_changeset_from_tip(chain) == TipHistory(chain.tip)

initial_changeset(chain) == chain.index

\* walk of iter_checkpoints() from node i downwards, reinserting while the
\* height is at least `from`
RECURSIVE reindex_walk(_, _, _, _)
reindex_walk(index, tip, i, from) ==
    IF i = 0 \/ tip[i].height < from THEN index
    ELSE reindex_walk(MapInsert(index, tip[i].height, tip[i].hash), tip, i - 1, from)

\* reindex that splits the index off and reinserts nothing
reindex_split_off_only(chain, from) ==
    [chain EXCEPT !.index = SplitOffKeep(chain.index, from)]

reindex(chain, from) ==
    [chain EXCEPT !.index = reindex_walk(SplitOffKeep(chain.index, from), chain.tip,
                                         Len(chain.tip), from)]

\* from_blocks testing for an empty map instead of a missing height 0
from_blocks_nonempty_check(blocks) ==
    IF DOMAIN blocks = {} THEN Err([tip |-> << >>, index |-> EmptyMap, birthday |-> 0],
                                   MissingGenesisError)
    ELSE Ok([birthday |-> 0, index |-> blocks, tip |-> MapToBlockIds(blocks)], EmptyMap)

from_blocks(blocks) ==
    IF 0 \notin DOMAIN blocks THEN Err([tip |-> << >>, index |-> EmptyMap, birthday |-> 0],
                                       MissingGenesisError)
    ELSE Ok([birthday |-> 0, index |-> blocks, tip |-> MapToBlockIds(blocks)], EmptyMap)

\* the walk running off the list without ever stopping at a base
find_base_runs_off(tip, i, start_height) == 0

\* find_base taking the checkpoint after the one that ended the walk
RECURSIVE find_base_skips_one(_, _, _)
find_base_skips_one(tip, i, start_height) ==
    IF i = 0 THEN 0
    ELSE IF tip[i].height >= start_height THEN find_base_skips_one(tip, i - 1, start_height)
    ELSE i - 1

\* the loop over iter_checkpoints() in apply_changeset: the position of the
\* first checkpoint below start_height (the base), 0 if there is none
RECURSIVE find_base(_, _, _)
find_base(tip, i, start_height) ==
    IF i = 0 THEN 0
    ELSE IF tip[i].height >= start_height THEN find_base(tip, i - 1, start_height)
    ELSE i

\* `extension` after the walk: the checkpoints at or above start_height, read
\* from node i downwards until the first one below it
RECURSIVE collect_extension(_, _, _)
collect_extension(tip, i, start_height) ==
    IF i = 0 \/ tip[i].height < start_height THEN EmptyMap
    ELSE MapInsert(collect_extension(tip, i - 1, start_height), tip[i].height, tip[i].hash)

\* the changeset's entries written onto `extension` with the removals skipped
apply_entries_keeps_removed(extension, changeset) ==
    [h \in (DOMAIN extension) \cup {k \in DOMAIN changeset : changeset[k] # NoneHash} |->
        IF h \in DOMAIN changeset /\ changeset[h] # NoneHash
        THEN changeset[h] ELSE extension[h]]

\* `extension` after the changeset's entries were written onto it
apply_entries(extension, changeset) ==
    [h \in ((DOMAIN extension) \cup {k \in DOMAIN changeset : changeset[k] # NoneHash})
            \ {k \in DOMAIN changeset : changeset[k] = NoneHash} |->
        IF h \in DOMAIN changeset THEN changeset[h] ELSE extension[h]]

\* apply_changeset truncating the index before the new tip is known to exist
apply_changeset_early_reindex(chain, changeset) ==
    IF DOMAIN changeset = {} THEN Ok(chain, EmptyMap)
    ELSE LET start_height == MinOf(DOMAIN changeset)
             base == find_base(chain.tip, Len(chain.tip), start_height)
             extension == apply_entries(collect_extension(chain.tip, Len(chain.tip), start_height),
                                       changeset)
             truncated == [chain EXCEPT !.index = SplitOffKeep(chain.index, start_height)]
         IN  IF base # 0
             THEN LET r == extend(SubSeq(chain.tip, 1, base), MapToBlockIds(extension))
                  IN  IF r.ok THEN Ok(reindex([chain EXCEPT !.tip = r.cp], start_height), EmptyMap)
                      ELSE Panic(truncated)
             ELSE LET r == from_blocks(extension)
                  IN  IF r.kind = "Ok"
                      THEN Ok(reindex([chain EXCEPT !.tip = r.chain.tip], start_height), EmptyMap)
                      ELSE Err(truncated, MissingGenesisError)

apply_changeset(chain, changeset) ==
    IF DOMAIN changeset = {} THEN Ok(chain, EmptyMap)
    ELSE LET start_height == MinOf(DOMAIN changeset)
             base == find_base(chain.tip, Len(chain.tip), start_height)
             extension == apply_entries(collect_extension(chain.tip, Len(chain.tip), start_height),
                                       changeset)
         IN  IF base # 0
             THEN LET r == extend(SubSeq(chain.tip, 1, base), MapToBlockIds(extension))
                  IN  IF r.ok THEN Ok(reindex([chain EXCEPT !.tip = r.cp], start_height), EmptyMap)
                      ELSE Panic(chain)
             ELSE LET r == from_blocks(extension)
                  IN  IF r.kind = "Ok"
                      THEN Ok(reindex([chain EXCEPT !.tip = r.chain.tip], start_height), EmptyMap)
                      ELSE Err(chain, MissingGenesisError)

from_block_id(genesis, block_id) ==
    LET chain == [birthday |-> block_id.height,
                  tip |-> CheckPointNew(block_id),
                  index |-> MapInsert(MapInsert(EmptyMap, 0, genesis),
                                      block_id.height, block_id.hash)]
    IN  Ok(chain, initial_changeset(chain))

from_genesis_hash(hash) ==
    LET chain == [birthday |-> 0,
                  tip |-> CheckPointNew([height |-> 0, hash |-> hash]),
                  index |-> MapInsert(EmptyMap, 0, hash)]
    IN  Ok(chain, initial_changeset(chain))

from_changeset(changeset) ==
    IF MapGet(changeset, 0) = NoneHash
    THEN Err([tip |-> << >>, index |-> EmptyMap, birthday |-> 0], MissingGenesisError)
    ELSE apply_changeset(from_genesis_hash(changeset[0]).chain, changeset)

from_tip(tip) ==
    LET chain == reindex([birthday |-> 0, tip |-> tip, index |-> EmptyMap], 0)
    IN  IF 0 \notin DOMAIN chain.index THEN Err(chain, MissingGenesisError)
        ELSE Ok(chain, EmptyMap)

\* impl PartialEq for LocalChain
LocalChainEq(self, other) ==
    IF self.birthday > other.birthday
    THEN /\ MapGet(self.index, 0) = MapGet(other.index, 0)
         /\ self.index = SplitOffReturn(other.index, self.birthday)
    ELSE IF self.birthday < other.birthday
    THEN /\ MapGet(self.index, 0) = MapGet(other.index, 0)
         /\ SplitOffReturn(self.index, other.birthday) = other.index
    ELSE self.index = other.index

\* apply_update returning the changeset without its removals
apply_update_drops_invalidations(chain, update) ==
    LET m == merge_chains(chain.tip, update.tip, update.shared, update.introduce_older_blocks)
    IN  IF m.kind = "Panic" THEN Panic(chain)
        ELSE IF m.kind = "Err" THEN Err(chain, m.err)
        ELSE LET a == apply_changeset(chain, m.changeset)
             IN  IF a.kind = "Panic" THEN Panic(chain)
                 ELSE IF a.kind = "Err" THEN Err(chain, CannotConnectError(0))
                 ELSE Ok(a.chain, Restrict(m.changeset, NoneHash))

\* `shared` is the number of nodes update.tip has in common with chain.tip
apply_update(chain, update) ==
    LET m == merge_chains(chain.tip, update.tip, update.shared, update.introduce_older_blocks)
    IN  IF m.kind = "Panic" THEN Panic(chain)
        ELSE IF m.kind = "Err" THEN Err(chain, m.err)
        ELSE LET a == apply_changeset(chain, m.changeset)
             IN  IF a.kind = "Panic" THEN Panic(a.chain)
                 ELSE IF a.kind = "Err" THEN Err(a.chain, CannotConnectError(0))
                 ELSE Ok(a.chain, m.changeset)

\* apply_header_connected_to rejecting only a connected_to above height - 1
apply_header_connected_to_above_only(chain, header, height, connected_to) ==
    LET this == [height |-> height, hash |-> header.block_hash]
        prev == IF height >= 1
                THEN <<[height |-> height - 1, hash |-> header.prev_blockhash]>>
                ELSE << >>
        saturating_sub == IF height >= 1 THEN height - 1 ELSE 0
    IN  IF connected_to = this \/ <<connected_to>> = prev
        THEN LET t == from_block_ids(prev \o <<this>>)
             IN  IF ~t.ok THEN Panic(chain)
                 ELSE apply_update(chain, [tip |-> t.cp, shared |-> 0,
                                           introduce_older_blocks |-> FALSE])
        ELSE IF connected_to.height > saturating_sub
        THEN Err(chain, InconsistentBlocks)
        ELSE LET t == from_block_ids(<<connected_to>> \o prev \o <<this>>)
             IN  IF ~t.ok THEN Panic(chain)
                 ELSE apply_update(chain, [tip |-> t.cp, shared |-> 0,
                                           introduce_older_blocks |-> FALSE])

\* [conn, prev, Some(this)].into_iter().flatten(); an absent Option is << >>
apply_header_connected_to(chain, header, height, connected_to) ==
    LET this == [height |-> height, hash |-> header.block_hash]
        prev == IF height >= 1
                THEN <<[height |-> height - 1, hash |-> header.prev_blockhash]>>
                ELSE << >>
        saturating_sub == IF height >= 1 THEN height - 1 ELSE 0
    IN  IF connected_to = this \/ <<connected_to>> = prev
        THEN LET t == from_block_ids(prev \o <<this>>)
             IN  IF ~t.ok THEN Panic(chain)
                 ELSE apply_update(chain, [tip |-> t.cp, shared |-> 0,
                                           introduce_older_blocks |-> FALSE])
        ELSE IF connected_to.height >= saturating_sub
        THEN Err(chain, InconsistentBlocks)
        ELSE LET t == from_block_ids(<<connected_to>> \o prev \o <<this>>)
             IN  IF ~t.ok THEN Panic(chain)
                 ELSE apply_update(chain, [tip |-> t.cp, shared |-> 0,
                                           introduce_older_blocks |-> FALSE])

\* apply_header naming the block below by the header's own hash
apply_header_own_hash_below(chain, header, height) ==
    LET connected_to == IF height >= 1
                        THEN [height |-> height - 1, hash |-> header.block_hash]
                        ELSE [height |-> height, hash |-> header.block_hash]
        r == apply_header_connected_to(chain, header, height, connected_to)
    IN  IF r.kind = "Err" /\ r.err = InconsistentBlocks THEN Panic(chain) ELSE r

apply_header(chain, header, height) ==
    LET connected_to == IF height >= 1
                        THEN [height |-> height - 1, hash |-> header.prev_blockhash]
                        ELSE [height |-> height, hash |-> header.block_hash]
        r == apply_header_connected_to(chain, header, height, connected_to)
    IN  IF r.kind = "Err" /\ r.err = InconsistentBlocks THEN Panic(chain) ELSE r

insert_block(chain, block_id) ==
    IF block_id.height \in DOMAIN chain.index
    THEN IF chain.index[block_id.height] # block_id.hash
         THEN Err(chain, AlterCheckPointError(block_id.height,
                                              chain.index[block_id.height], block_id.hash))
         ELSE Ok(chain, EmptyMap)
    ELSE LET changeset == MapInsert(EmptyMap, block_id.height, block_id.hash)
             a == apply_changeset(chain, changeset)
         IN  IF a.kind = "Panic" \/ (a.kind = "Err" /\ 0 \notin DOMAIN a.chain.index)
             THEN Panic(a.chain)
             ELSE IF a.kind = "Err"
             THEN Err(a.chain, AlterCheckPointError(0, genesis_hash(a.chain),
                                                  MapGet(changeset, 0)))
             ELSE Ok(a.chain, changeset)

disconnect_from(chain, block_id) ==
    IF MapGet(chain.index, block_id.height) # block_id.hash THEN Ok(chain, EmptyMap)
    ELSE LET changeset == [h \in {k \in DOMAIN chain.index : k >= block_id.height} |-> NoneHash]
             a == apply_changeset(chain, changeset)
         IN  IF a.kind = "Ok" THEN Ok(a.chain, changeset) ELSE a

\* Option<bool> of is_block_in_chain
NoneBool == "None"
SomeBool(b) == IF b THEN "Some(true)" ELSE "Some(false)"

\* is_block_in_chain with >= in the height test
is_block_in_chain_height_ge(chain, block, chain_tip) ==
    IF block.height >= chain_tip.height THEN NoneBool
    ELSE IF block.height \in DOMAIN chain.index /\ chain_tip.height \in DOMAIN chain.index
    THEN SomeBool(chain.index[block.height] = block.hash
                  /\ chain.index[chain_tip.height] = chain_tip.hash)
    ELSE NoneBool

\* impl ChainOracle for LocalChain; the error type is Infallible
is_block_in_chain(chain, block, chain_tip) ==
    IF block.height > chain_tip.height THEN NoneBool
    ELSE IF block.height \in DOMAIN chain.index /\ chain_tip.height \in DOMAIN chain.index
    THEN SomeBool(chain.index[block.height] = block.hash
                  /\ chain.index[chain_tip.height] = chain_tip.hash)
    ELSE NoneBool

\* ------------------------------------------------------------ input sets
\* every BTreeMap<u32, BlockHash> over the bounded heights and hashes
AllBlockMaps == {Restrict(f, 0) : f \in [Heights -> 0..NumHashes]}

\* every ChangeSet with at most MaxChangeSetLen entries
ChangeSets ==
    {cs \in {Restrict(f, -1) : f \in [Heights -> (-1)..NumHashes]} :
        Cardinality(DOMAIN cs) <= MaxChangeSetLen}

\* every CheckPoint list a caller can build with new/push (strictly ascending)
CheckPoints ==
    {MapToBlockIds(m) : m \in {x \in AllBlockMaps :
        Cardinality(DOMAIN x) >= 1 /\ Cardinality(DOMAIN x) <= MaxUpdateLen}}

\* the number of root-most nodes a list built on a handle of `tip` can share
\* with it
SharedWith(tip, cp) ==
    {k \in 0..Len(cp) : k <= Len(tip) /\ SubSeq(cp, 1, k) = SubSeq(tip, 1, k)}

Updates(tip) ==
    {u \in [tip : CheckPoints, shared : 0..MaxUpdateLen, introduce_older_blocks : BOOLEAN] :
        u.shared \in SharedWith(tip, u.tip)}

Headers == [block_hash : Hashes, prev_blockhash : Hashes]

OkChains(results) == {r.chain : r \in {x \in results : x.kind = "Ok"}}

\* the chains the five constructors return
InitialChains ==
    OkChains({from_genesis_hash(h) : h \in Hashes})
    \cup OkChains({from_block_id(g, b) : g \in Hashes, b \in BlockIds})
    \cup OkChains({from_tip(t) : t \in CheckPoints})
    \cup OkChains({from_changeset(cs) : cs \in ChangeSets})
    \cup OkChains({from_blocks(m) : m \in AllBlockMaps})

\* ------------------------------------------------------------------- state
VARIABLES
    chain,      \* the live LocalChain
    replica,    \* a chain rebuilt from the changesets the live chain returned
    last,       \* the call in progress: operation, arguments, pre-state, result
    mrg,        \* a direct call of merge_chains: inputs and result
    arena       \* the CheckPoint nodes in memory, the tip and a captured handle

vars == <<chain, replica, last, mrg, arena>>

NoCall == [op |-> "none"]

NoMerge == [phase |-> "off"]

NoArena == [phase |-> "off"]

\* replay of one more changeset on the replica
Replay(r, changeset) ==
    IF ~r.ok THEN r
    ELSE LET a == apply_changeset(r.chain, changeset)
         IN  [ok |-> a.kind = "Ok", chain |-> a.chain]

NewReplica(c) ==
    LET r == from_changeset(initial_changeset(c))
    IN  [ok |-> r.kind = "Ok", chain |-> r.chain]

Init ==
    /\ chain \in InitialChains
    /\ replica = NewReplica(chain)
    /\ last = NoCall
    /\ mrg = NoMerge
    /\ arena = NoArena

Idle == last.op = "none" /\ mrg = NoMerge

\* the effect every mutator has on the state: the chain becomes the result's
\* chain, the returned changeset is replayed on the replica
Called(op, arg, res) ==
    /\ chain' = res.chain
    /\ replica' = IF res.kind = "Ok" THEN Replay(replica, res.changeset) ELSE replica
    /\ last' = [op |-> op, arg |-> arg, pre |-> chain, res |-> res]
    /\ UNCHANGED <<mrg, arena>>

ApplyUpdate ==
    /\ Idle
    /\ \E u \in Updates(chain.tip) : Called("apply_update", u, apply_update(chain, u))

ApplyHeader ==
    /\ Idle
    /\ \E header \in Headers, height \in Heights :
        Called("apply_header", [header |-> header, height |-> height],
               apply_header(chain, header, height))

ApplyHeaderConnectedTo ==
    /\ Idle
    /\ \E header \in Headers, height \in Heights, connected_to \in BlockIds :
        Called("apply_header_connected_to",
               [header |-> header, height |-> height, connected_to |-> connected_to],
               apply_header_connected_to(chain, header, height, connected_to))

\* apply_changeset returns (); the changeset a caller would persist is the
\* argument
ApplyChangeset ==
    /\ Idle
    /\ \E cs \in ChangeSets :
        LET a == apply_changeset(chain, cs)
        IN  Called("apply_changeset", cs,
                   IF a.kind = "Ok" THEN Ok(a.chain, cs) ELSE a)

InsertBlock ==
    /\ Idle
    /\ \E b \in BlockIds : Called("insert_block", b, insert_block(chain, b))

DisconnectFrom ==
    /\ Idle
    /\ \E b \in BlockIds : Called("disconnect_from", b, disconnect_from(chain, b))

\* a query through &self: the chain cannot change
IsBlockInChain ==
    /\ Idle
    /\ \E block \in BlockIds, chain_tip \in BlockIds :
        /\ last' = [op |-> "is_block_in_chain",
                    arg |-> [block |-> block, chain_tip |-> chain_tip],
                    pre |-> chain,
                    res |-> [kind |-> "Ok", chain |-> chain, changeset |-> EmptyMap,
                             err |-> NoError,
                             value |-> is_block_in_chain(chain, block, chain_tip)]]
        /\ UNCHANGED <<chain, replica, mrg, arena>>

\* the caller drops the chain at hand and constructs a new one; the replica
\* is rebuilt from the changeset the constructor returned
FromBlockId ==
    /\ Idle
    /\ \E genesis \in Hashes, block_id \in BlockIds :
        LET r == from_block_id(genesis, block_id)
            n == from_changeset(r.changeset)
        IN  /\ chain' = r.chain
            /\ replica' = [ok |-> n.kind = "Ok", chain |-> n.chain]
            /\ last' = [op |-> "from_block_id",
                        arg |-> [genesis_hash |-> genesis, block_id |-> block_id],
                        pre |-> chain, res |-> r]
            /\ UNCHANGED <<mrg, arena>>

\* the call returns to the caller (a panic does not return)
Return ==
    /\ last.op # "none"
    /\ last.res.kind # "Panic"
    /\ last' = NoCall
    /\ UNCHANGED <<chain, replica, mrg, arena>>

Next ==
    \/ ApplyUpdate
    \/ ApplyHeader
    \/ ApplyHeaderConnectedTo
    \/ ApplyChangeset
    \/ InsertBlock
    \/ DisconnectFrom
    \/ IsBlockInChain
    \/ FromBlockId
    \/ Return

Spec == Init /\ [][Next]_vars

NoPanic == last.op # "none" => last.res.kind # "Panic"

StrictlyAscending(cp) == \A i \in 1..(Len(cp) - 1) : cp[i].height < cp[i + 1].height

TypeOK ==
    /\ Len(chain.tip) >= 1
    /\ StrictlyAscending(chain.tip)
    /\ \A i \in 1..Len(chain.tip) : chain.tip[i] \in BlockIds
    /\ chain.birthday \in Heights
    /\ DOMAIN chain.index \subseteq Heights

\* ------------------------------------------ apply_update with long updates
LongMaxUpdateLen == 3

\* every CheckPoint list of at most LongMaxUpdateLen blocks
LongCheckPoints ==
    {MapToBlockIds(m) : m \in {x \in AllBlockMaps :
        Cardinality(DOMAIN x) >= 1 /\ Cardinality(DOMAIN x) <= LongMaxUpdateLen}}

LongUpdates(tip) ==
    {u \in [tip : LongCheckPoints, shared : 0..LongMaxUpdateLen,
            introduce_older_blocks : BOOLEAN] :
        u.shared \in SharedWith(tip, u.tip)}

ApplyLongUpdate ==
    /\ Idle
    /\ \E u \in LongUpdates(chain.tip) :
        Called("apply_update", u, apply_update(chain, u))

NextUpdate ==
    \/ ApplyLongUpdate
    \/ Return

SpecUpdate == Init /\ [][NextUpdate]_vars

\* ------------------------------------------- merge_chains called directly
MergeMaxHeight == 5
MergeNumHashes == 4
MergeMaxOrigLen == 2
MergeMaxUpdateLen == 2

MaxHash(cp) == IF cp = << >> THEN 0 ELSE CHOOSE k \in {cp[i].hash : i \in 1..Len(cp)} :
                                            \A i \in 1..Len(cp) : cp[i].hash <= k

\* merge_chains only tests hashes for equality, so its inputs are drawn up to
\* a renaming of the hashes: the lists of at most n blocks at heights from
\* minHeight upwards in which a hash not among the `used` first ones is always
\* the next unused one
RECURSIVE CanonicalLists(_, _, _)
CanonicalLists(minHeight, used, n) ==
    {<< >>} \cup
    (IF n = 0 THEN {}
     ELSE UNION {{<<[height |-> h, hash |-> k]>> \o t :
                    t \in CanonicalLists(h + 1, IF k > used THEN k ELSE used, n - 1)} :
                 h \in minHeight..MergeMaxHeight,
                 k \in 1..(IF used < MergeNumHashes THEN used + 1 ELSE MergeNumHashes)})

MergeOrigs == CanonicalLists(0, 0, MergeMaxOrigLen) \ {<< >>}

MergeUpdates(original_tip) ==
    CanonicalLists(0, MaxHash(original_tip), MergeMaxUpdateLen) \ {<< >>}

InitMerge ==
    /\ chain = from_genesis_hash(1).chain
    /\ replica = NewReplica(chain)
    /\ last = NoCall
    /\ mrg \in {[phase |-> "input", original_tip |-> o] : o \in MergeOrigs}
    /\ arena = NoArena

MergeChains ==
    /\ mrg.phase = "input"
    /\ \E u \in MergeUpdates(mrg.original_tip), older \in BOOLEAN :
        \E k \in SharedWith(mrg.original_tip, u) :
            mrg' = [phase |-> "done",
                    original_tip |-> mrg.original_tip,
                    update_tip |-> u,
                    shared |-> k,
                    introduce_older_blocks |-> older,
                    res |-> merge_chains(mrg.original_tip, u, k, older)]
    /\ UNCHANGED <<chain, replica, last, arena>>

NextMerge == MergeChains

SpecMerge == InitMerge /\ [][NextMerge]_vars

\* --------------------------------- the CheckPoint list as nodes in memory
\* CPInner { block, prev }: a node is [block, prev], its address is its
\* position in `heap`, prev = 0 is None. A CheckPoint handle is an address.
HandleMaxHeight == 1
HandleNumHashes == 1
HandleMaxLen == 2
HandleMaxChangeSetLen == 1

HandleHeights == 0..HandleMaxHeight
HandleHashes == 1..HandleNumHashes
HandleBlockIds == [height : HandleHeights, hash : HandleHashes]

\* CheckPoint::new
HeapNew(heap, block) ==
    [heap |-> Append(heap, [block |-> block, prev |-> 0]), cp |-> Len(heap) + 1]

\* push writing the block into the node it is pushed on and moving that
\* node's old content below it
HeapPush_in_place(heap, cp, block) ==
    IF heap[cp].block.height < block.height
    THEN [ok |-> TRUE,
          heap |-> Append([heap EXCEPT ![cp] = [block |-> block, prev |-> Len(heap) + 1]],
                          heap[cp]),
          cp |-> cp]
    ELSE [ok |-> FALSE, heap |-> heap, cp |-> cp]

\* CheckPoint::push: Arc::new(CPInner { block, prev: Some(self.0) })
HeapPush(heap, cp, block) ==
    IF heap[cp].block.height < block.height
    THEN [ok |-> TRUE,
          heap |-> Append(heap, [block |-> block, prev |-> cp]),
          cp |-> Len(heap) + 1]
    ELSE [ok |-> FALSE, heap |-> heap, cp |-> cp]

\* extend answering a failed push with the handle the push was made on
RECURSIVE HeapExtendFrom_keeps_prefix(_, _, _, _)
HeapExtendFrom_keeps_prefix(heap, self, curr, blocks) ==
    IF blocks = << >> THEN [ok |-> TRUE, heap |-> heap, cp |-> curr]
    ELSE LET r == HeapPush(heap, curr, Head(blocks))
         IN  IF r.ok THEN HeapExtendFrom_keeps_prefix(r.heap, self, r.cp, Tail(blocks))
             ELSE [ok |-> FALSE, heap |-> r.heap, cp |-> r.cp]

\* the loop of CheckPoint::extend: curr = curr.push(block).map_err(|_| self.clone())?
RECURSIVE HeapExtendFrom(_, _, _, _)
HeapExtendFrom(heap, self, curr, blocks) ==
    IF blocks = << >> THEN [ok |-> TRUE, heap |-> heap, cp |-> curr]
    ELSE LET r == HeapPush(heap, curr, Head(blocks))
         IN  IF r.ok THEN HeapExtendFrom(r.heap, self, r.cp, Tail(blocks))
             ELSE [ok |-> FALSE, heap |-> r.heap, cp |-> self]

HeapExtend(heap, self, blocks) == HeapExtendFrom(heap, self, self, blocks)

\* CheckPoint::iter: the blocks from the handle down to the root
RECURSIVE HeapIter(_, _)
HeapIter(heap, cp) ==
    IF cp = 0 THEN << >>
    ELSE <<heap[cp].block>> \o HeapIter(heap, heap[cp].prev)

\* the addresses visited by the same walk
RECURSIVE HeapAddrs(_, _)
HeapAddrs(heap, cp) ==
    IF cp = 0 THEN << >>
    ELSE <<cp>> \o HeapAddrs(heap, heap[cp].prev)

\* the walk of apply_changeset over iter_checkpoints(): the base handle
RECURSIVE HeapFindBase(_, _, _)
HeapFindBase(heap, cp, start_height) ==
    IF cp = 0 THEN 0
    ELSE IF heap[cp].block.height >= start_height
    THEN HeapFindBase(heap, heap[cp].prev, start_height)
    ELSE cp

\* ... and the extension it collects
RECURSIVE HeapCollect(_, _, _)
HeapCollect(heap, cp, start_height) ==
    IF cp = 0 \/ heap[cp].block.height < start_height THEN EmptyMap
    ELSE MapInsert(HeapCollect(heap, heap[cp].prev, start_height),
                   heap[cp].block.height, heap[cp].block.hash)

\* apply_changeset on the nodes: the new tip is built on the base handle, or
\* from nothing by from_blocks when there is no base
HeapApplyChangeset(heap, tip, changeset) ==
    IF DOMAIN changeset = {} THEN [ok |-> TRUE, heap |-> heap, tip |-> tip]
    ELSE LET start_height == MinOf(DOMAIN changeset)
             base == HeapFindBase(heap, tip, start_height)
             extension == apply_entries(HeapCollect(heap, tip, start_height), changeset)
             blocks == MapToBlockIds(extension)
         IN  IF base # 0
             THEN LET r == HeapExtend(heap, base, blocks)
                  IN  [ok |-> r.ok, heap |-> r.heap, tip |-> IF r.ok THEN r.cp ELSE tip]
             ELSE IF 0 \notin DOMAIN extension
             THEN [ok |-> FALSE, heap |-> heap, tip |-> tip]
             ELSE LET n == HeapNew(heap, Head(blocks))
                      r == HeapExtend(n.heap, n.cp, Tail(blocks))
                  IN  [ok |-> r.ok, heap |-> r.heap, tip |-> IF r.ok THEN r.cp ELSE tip]

ReverseSeq(s) == [i \in 1..Len(s) |-> s[Len(s) + 1 - i]]

PositionIn(s, x) == CHOOSE i \in 1..Len(s) : s[i] = x

\* Arc: a node lives as long as a handle reaches it. The nodes that the tip
\* or the captured handle reach are kept, at addresses that depend only on
\* the shape of the two lists
Collect(heap, tip, handle) ==
    LET ha == ReverseSeq(HeapAddrs(heap, handle))
        ta == ReverseSeq(HeapAddrs(heap, tip))
        keep == ha \o SelectSeq(ta, LAMBDA a : \A i \in 1..Len(ha) : ha[i] # a)
        moved(a) == IF a = 0 THEN 0 ELSE PositionIn(keep, a)
    IN  [heap |-> [i \in 1..Len(keep) |->
                      [block |-> heap[keep[i]].block, prev |-> moved(heap[keep[i]].prev)]],
         tip |-> moved(tip),
         handle |-> moved(handle)]

\* the nodes of a chain just constructed, with the handle tip() returns
RECURSIVE HeapOfList(_, _)
HeapOfList(heap, blocks) ==
    IF blocks = << >> THEN heap
    ELSE HeapOfList(Append(heap, [block |-> Head(blocks), prev |-> Len(heap)]), Tail(blocks))

NewArena(tip) ==
    LET heap == HeapOfList(<< >>, tip)
    IN  [phase |-> "on", heap |-> heap, tip |-> Len(heap), handle |-> Len(heap),
         captured |-> HeapIter(heap, Len(heap))]

HandleBlockMaps == {Restrict(f, 0) : f \in [HandleHeights -> 0..HandleNumHashes]}

HandleChangeSets ==
    {cs \in {Restrict(f, -1) : f \in [HandleHeights -> (-1)..HandleNumHashes]} :
        Cardinality(DOMAIN cs) <= HandleMaxChangeSetLen}

HandleCheckPoints ==
    {MapToBlockIds(m) : m \in {x \in HandleBlockMaps :
        Cardinality(DOMAIN x) >= 1 /\ Cardinality(DOMAIN x) <= HandleMaxLen}}

HandleUpdates(tip) ==
    {u \in [tip : HandleCheckPoints, shared : 0..HandleMaxLen,
            introduce_older_blocks : BOOLEAN] :
        u.shared \in SharedWith(tip, u.tip)}

\* every sequence of at most HandleMaxLen blocks, ascending or not
HandleBlockSeqs ==
    UNION {[1..n -> HandleBlockIds] : n \in 0..HandleMaxLen}

InitHandle ==
    /\ chain \in OkChains({from_genesis_hash(h) : h \in HandleHashes})
                 \cup OkChains({from_block_id(g, b) : g \in HandleHashes, b \in HandleBlockIds})
                 \cup OkChains({from_tip(t) : t \in HandleCheckPoints})
    /\ replica = NewReplica(chain)
    /\ last = NoCall
    /\ mrg = NoMerge
    /\ arena = NewArena(chain.tip)

\* a mutator called while a handle is held: the chain changes as the call
\* says, the nodes change as apply_changeset builds the new tip
Mutated(op, arg, res) ==
    LET a == IF res.kind = "Ok"
             THEN HeapApplyChangeset(arena.heap, arena.tip, res.changeset)
             ELSE [ok |-> TRUE, heap |-> arena.heap, tip |-> arena.tip]
        c == Collect(a.heap, a.tip, arena.handle)
    IN  /\ chain' = res.chain
        /\ last' = [op |-> op, arg |-> arg, pre |-> chain, res |-> res]
        /\ replica' = IF res.kind = "Ok" THEN Replay(replica, res.changeset) ELSE replica
        /\ arena' = [arena EXCEPT !.heap = c.heap, !.tip = c.tip, !.handle = c.handle]
        /\ UNCHANGED mrg

HandleIdle == last.op = "none" /\ arena.phase = "on"

HandleApplyUpdate ==
    /\ HandleIdle
    /\ \E u \in HandleUpdates(chain.tip) :
        Mutated("apply_update", u, apply_update(chain, u))

HandleApplyChangeset ==
    /\ HandleIdle
    /\ \E cs \in HandleChangeSets :
        LET a == apply_changeset(chain, cs)
        IN  Mutated("apply_changeset", cs, IF a.kind = "Ok" THEN Ok(a.chain, cs) ELSE a)

HandleInsertBlock ==
    /\ HandleIdle
    /\ \E b \in HandleBlockIds : Mutated("insert_block", b, insert_block(chain, b))

HandleDisconnectFrom ==
    /\ HandleIdle
    /\ \E b \in HandleBlockIds : Mutated("disconnect_from", b, disconnect_from(chain, b))

\* let handle = chain.tip(): the handle held so far is dropped
CaptureTip ==
    /\ HandleIdle
    /\ arena.handle # arena.tip
    /\ LET c == Collect(arena.heap, arena.tip, arena.tip)
       IN  arena' = [arena EXCEPT !.heap = c.heap, !.tip = c.tip, !.handle = c.handle,
                                  !.captured = HeapIter(c.heap, c.handle)]
    /\ UNCHANGED <<chain, replica, last, mrg>>

\* chain.tip().extend(blocks) on the handle just taken: the returned handle is
\* inspected and dropped
ExtendHandle ==
    /\ HandleIdle
    /\ arena.handle = arena.tip
    /\ \E blocks \in HandleBlockSeqs :
        LET r == HeapExtend(arena.heap, arena.handle, blocks)
        IN  last' = [op |-> "extend", arg |-> blocks, pre |-> chain,
                     res |-> [kind |-> IF r.ok THEN "Ok" ELSE "Err",
                              chain |-> chain, changeset |-> EmptyMap, err |-> NoError,
                              is_self |-> r.cp = arena.handle,
                              yields |-> HeapIter(r.heap, r.cp)]]
    /\ UNCHANGED <<chain, replica, mrg, arena>>

NextHandle ==
    \/ HandleApplyUpdate
    \/ HandleApplyChangeset
    \/ HandleInsertBlock
    \/ HandleDisconnectFrom
    \/ CaptureTip
    \/ ExtendHandle
    \/ Return

SpecHandle == InitHandle /\ [][NextHandle]_vars

\* the nodes reachable from the tip are the chain's checkpoint list
HeapHoldsTip ==
    arena.phase = "on" => HeapIter(arena.heap, arena.tip) = ReverseSeq(chain.tip)

\* ------------------------------------------- ChainPosition and FullTxOut
\* a u32 is kept at its width as two 16-bit halves [hi, lo]
HalfWord == 65536

U32(hi, lo) == [hi |-> hi, lo |-> lo]

U32Zero == U32(0, 0)

U32Max == U32(HalfWord - 1, HalfWord - 1)

U32Small(n) == U32(0, n)

U32Lt(a, b) == a.hi < b.hi \/ (a.hi = b.hi /\ a.lo < b.lo)

U32Le(a, b) == a = b \/ U32Lt(a, b)

\* u32::saturating_sub
saturating_sub(a, b) ==
    IF U32Lt(a, b) THEN U32Zero
    ELSE IF a.lo >= b.lo THEN U32(a.hi - b.hi, a.lo - b.lo)
    ELSE U32(a.hi - b.hi - 1, a.lo + HalfWord - b.lo)

\* `age + 1` on u32 with overflow checks off: u32::MAX + 1 wraps to 0
add_one(a) ==
    IF a.lo + 1 < HalfWord THEN U32(a.hi, a.lo + 1)
    ELSE IF a.hi + 1 < HalfWord THEN U32(a.hi + 1, 0)
    ELSE U32Zero

COINBASE_MATURITY == U32Small(100)

\* an anchor, as far as FullTxOut reads it: anchor_block().height and
\* confirmation_height_upper_bound(); a key stands for its place in the
\* anchor type's own order
Anchor(anchor_height, upper_bound, key) ==
    [anchor_height |-> anchor_height, upper_bound |-> upper_bound, key |-> key]

Confirmed(a) == [variant |-> "Confirmed", anchor |-> a]

Unconfirmed(t) == [variant |-> "Unconfirmed", last_seen |-> t]

NotSpent == [variant |-> "None"]

\* is_mature; a coinbase output that is unconfirmed answers false once the
\* debug assertion is compiled out
is_mature(txout, tip) ==
    IF txout.is_on_coinbase
    THEN IF txout.chain_position.variant = "Unconfirmed" THEN FALSE
         ELSE LET tx_height == txout.chain_position.anchor.upper_bound
                  age == saturating_sub(tip, tx_height)
              IN  ~U32Lt(add_one(age), COINBASE_MATURITY)
    ELSE TRUE

\* is_confirmed_and_spendable counting every spent output as unspendable
is_confirmed_and_spendable_unspent_only(txout, tip) ==
    IF ~is_mature(txout, tip) THEN FALSE
    ELSE IF txout.chain_position.variant = "Unconfirmed" THEN FALSE
    ELSE IF U32Lt(tip, txout.chain_position.anchor.upper_bound) THEN FALSE
    ELSE txout.spent_by.variant = "None"

is_confirmed_and_spendable(txout, tip) ==
    IF ~is_mature(txout, tip) THEN FALSE
    ELSE IF txout.chain_position.variant = "Unconfirmed" THEN FALSE
    ELSE IF U32Lt(tip, txout.chain_position.anchor.upper_bound) THEN FALSE
    ELSE IF txout.spent_by.variant = "Confirmed"
            /\ U32Le(txout.spent_by.anchor.anchor_height, tip)
    THEN FALSE
    ELSE TRUE

\* core::cmp::Ordering
Less == "Less"
Equal == "Equal"
Greater == "Greater"

CmpInt(a, b) == IF a < b THEN Less ELSE IF a = b THEN Equal ELSE Greater

\* the derived order with Unconfirmed declared before Confirmed
ChainPositionCmp_unconfirmed_first(p, q) ==
    IF p.variant # q.variant
    THEN IF p.variant = "Unconfirmed" THEN Less ELSE Greater
    ELSE IF p.variant = "Confirmed" THEN CmpInt(p.anchor.key, q.anchor.key)
    ELSE CmpInt(p.last_seen, q.last_seen)

\* #[derive(PartialOrd, Ord)] on ChainPosition: the variants in the order of
\* their declaration, Confirmed then Unconfirmed, then the payload
ChainPositionCmp(p, q) ==
    IF p.variant # q.variant
    THEN IF p.variant = "Confirmed" THEN Less ELSE Greater
    ELSE IF p.variant = "Confirmed" THEN CmpInt(p.anchor.key, q.anchor.key)
    ELSE CmpInt(p.last_seen, q.last_seen)

\* the heights tried: within EdgeWidth of 0, of the maturity threshold and of
\* u32::MAX
EdgeWidth == 2

U32Samples ==
    {U32Small(n) : n \in 0..EdgeWidth}
    \cup {U32Small(n) : n \in (99 - EdgeWidth)..(100 + EdgeWidth)}
    \cup {U32(HalfWord - 1, HalfWord - 1 - n) : n \in 0..EdgeWidth}

OrderKeys == 0..EdgeWidth

Anchors == {Anchor(h, h, k) : h \in U32Samples, k \in {0}}
           \cup {Anchor(U32Max, h, k) : h \in U32Samples, k \in {0}}

ChainPositions == {Confirmed(a) : a \in Anchors} \cup {Unconfirmed(0)}

FullTxOuts ==
    [chain_position : ChainPositions,
     spent_by : {NotSpent, Unconfirmed(0)}
                    \cup {Confirmed(Anchor(h, h, 0)) : h \in U32Samples},
     is_on_coinbase : BOOLEAN]

OrderedPositions ==
    {Confirmed(Anchor(U32Zero, U32Zero, k)) : k \in OrderKeys}
    \cup {Unconfirmed(t) : t \in OrderKeys}

InitQuery ==
    /\ chain = from_genesis_hash(1).chain
    /\ replica = NewReplica(chain)
    /\ last = NoCall
    /\ mrg = NoMerge
    /\ arena = NoArena

\* a query on a value: nothing of the chain is read or written
Queried(op, arg, value) ==
    /\ last' = [op |-> op, arg |-> arg, pre |-> chain,
                res |-> [kind |-> "Ok", chain |-> chain, changeset |-> EmptyMap,
                         err |-> NoError, value |-> value]]
    /\ UNCHANGED <<chain, replica, mrg, arena>>

IsMature ==
    /\ Idle
    /\ \E txout \in FullTxOuts, tip \in U32Samples :
        /\ txout.spent_by = NotSpent
        /\ Queried("is_mature", [txout |-> txout, tip |-> tip], is_mature(txout, tip))

IsConfirmedAndSpendable ==
    /\ Idle
    /\ \E txout \in FullTxOuts, tip \in U32Samples :
        Queried("is_confirmed_and_spendable", [txout |-> txout, tip |-> tip],
                is_confirmed_and_spendable(txout, tip))

ComparePositions ==
    /\ Idle
    /\ \E p \in OrderedPositions, q \in OrderedPositions :
        Queried("cmp", [p |-> p, q |-> q], ChainPositionCmp(p, q))

NextTxOut ==
    \/ IsMature
    \/ IsConfirmedAndSpendable
    \/ ComparePositions
    \/ Return

SpecTxOut == InitQuery /\ [][NextTxOut]_vars

\* ------------------------------------------- the match of the merge loop
CursorMaxHeight == 3

CursorNumHashes == 3

Cursors ==
    {NoCursor} \cup {SomeCursor([height |-> h, hash |-> x]) :
                        h \in 0..CursorMaxHeight, x \in 1..CursorNumHashes}

MatchCursors ==
    /\ Idle
    /\ \E o \in Cursors, u \in Cursors :
        Queried("match", [o |-> o, u |-> u], MatchArm(o, u))

NextMatch ==
    \/ MatchCursors
    \/ Return

SpecMatch == InitQuery /\ [][NextMatch]_vars

\* ------------------------------------------------------------------ claims
check_index_is_consistent_with_tip(c) == c.index = TipHistory(c.tip)

\* C1: in every state reached by a successful constructor followed by
\* successful mutators, the index equals exactly the (height, hash) pairs of
\* the checkpoints reachable from the tip.
C1_IndexEqualsTipHistory == check_index_is_consistent_with_tip(chain)

\* C2: whenever a mutator returns an error, tip, index and birthday are what
\* they were before the call.
C2_FailedCallLeavesChainUntouched ==
    (last.op # "none" /\ last.res.kind = "Err") => chain = last.pre

\* apply_update failed after merge_chains had succeeded (apply_changeset
\* refused the changeset)
C2_Witness ==
    /\ last.op = "apply_update"
    /\ last.res.kind = "Err"
    /\ merge_chains(last.pre.tip, last.arg.tip, last.arg.shared,
                    last.arg.introduce_older_blocks).kind = "Ok"

\* C3: when apply_update succeeds and returns D, apply_changeset(D) on a copy
\* of the pre-update chain succeeds and yields the same index and the same
\* tip sequence as the post-update chain.
C3_UpdateEqualsApplyingItsChangeSet ==
    (last.op = "apply_update" /\ last.res.kind = "Ok") =>
        LET a == apply_changeset(last.pre, last.res.changeset)
        IN  /\ a.kind = "Ok"
            /\ a.chain.index = chain.index
            /\ a.chain.tip = chain.tip

\* a reorg: the returned changeset both removes and writes blocks
C3_Witness ==
    /\ last.op = "apply_update"
    /\ last.res.kind = "Ok"
    /\ \E h \in DOMAIN last.res.changeset : last.res.changeset[h] = NoneHash
    /\ \E h \in DOMAIN last.res.changeset : last.res.changeset[h] # NoneHash

\* C4: for every reachable chain c, from_changeset(c.initial_changeset())
\* succeeds and the result compares equal to c under LocalChain's ==.
C4_InitialChangeSetRoundTrip ==
    LET r == from_changeset(initial_changeset(chain))
    IN  r.kind = "Ok" /\ LocalChainEq(r.chain, chain)

\* C5: the replica built with from_changeset on the initial changeset and
\* apply_changeset on every changeset the live chain returned never fails,
\* and its index is the live chain's index after each step.
C5_ReplayYieldsSameIndex == replica.ok /\ replica.chain.index = chain.index

\* a chain built by from_block_id (its list lacks the genesis block, the
\* replica's has it) after a successful update that wrote a block
C5_Witness ==
    /\ last.op = "apply_update"
    /\ last.res.kind = "Ok"
    /\ ~check_index_is_consistent_with_tip(chain)
    /\ DOMAIN last.res.changeset # {}
    /\ replica.chain.tip # chain.tip

\* C6: in every reachable state the index contains key 0.
C6_IndexHasGenesis == 0 \in DOMAIN chain.index

\* a changeset that rewrote the genesis block was applied
C6_Witness ==
    /\ last.op = "apply_changeset"
    /\ 0 \in DOMAIN last.arg
    /\ last.res.kind = "Ok"
    /\ chain.index[0] # last.pre.index[0]

\* C7: when apply_changeset(cs) succeeds, a second apply_changeset(cs) also
\* succeeds and leaves the index and the tip sequence as they were after the
\* first call.
C7_ApplyChangeSetIdempotent ==
    (last.op = "apply_changeset" /\ last.res.kind = "Ok") =>
        LET a == apply_changeset(chain, last.arg)
        IN  /\ a.kind = "Ok"
            /\ a.chain.index = chain.index
            /\ a.chain.tip = chain.tip

\* the first call changed the chain above a base with a checkpoint below it
C7_Witness ==
    /\ last.op = "apply_changeset"
    /\ last.res.kind = "Ok"
    /\ chain # last.pre
    /\ DOMAIN last.arg # {}
    /\ find_base(last.pre.tip, Len(last.pre.tip), MinOf(DOMAIN last.arg)) >= 2
    /\ \E h \in DOMAIN last.arg : last.arg[h] = NoneHash

MaxOf(a, b) == IF a > b THEN a ELSE b

\* the equality the specification describes: same genesis, same entries at
\* or above the higher birthday
OverlayEq(a, b) ==
    /\ MapGet(a.index, 0) = MapGet(b.index, 0)
    /\ SplitOffReturn(a.index, MaxOf(a.birthday, b.birthday))
        = SplitOffReturn(b.index, MaxOf(a.birthday, b.birthday))

\* the chains at hand in a state: the live chain, the replica, the pre-state
ChainsAtHand ==
    {chain, replica.chain} \cup (IF last.op # "none" THEN {last.pre} ELSE {})

\* C8: two chains compare equal iff their indexes agree on genesis and on
\* the entries at heights >= max(self.birthday, other.birthday).
C8_EqIsOverlayEq ==
    \A a \in ChainsAtHand, b \in ChainsAtHand : LocalChainEq(a, b) <=> OverlayEq(a, b)

\* the update with the chain's block at height h put in; the nodes above it
\* are new, the nodes below it may still be the chain's
InsertBlockId(cp, b) ==
    SelectSeq(cp, LAMBDA x : x.height < b.height) \o <<b>>
        \o SelectSeq(cp, LAMBDA x : x.height > b.height)

Augmented(c, update, h) ==
    LET t == InsertBlockId(update.tip, [height |-> h, hash |-> c.index[h]])
    IN  {[tip |-> t, shared |-> k, introduce_older_blocks |-> update.introduce_older_blocks] :
            k \in {j \in SharedWith(c.tip, t) : j <= update.shared}}

FailedWithCannotConnect ==
    /\ last.op = "apply_update"
    /\ last.res.kind = "Err"

\* C9 as stated: after CannotConnectError {try_include_height: h}, the update
\* augmented by the chain's block at height h succeeds on the next attempt.
C9_RetrySucceeds ==
    FailedWithCannotConnect =>
        \A u \in Augmented(chain, last.arg, last.res.err.try_include_height) :
            apply_update(chain, u).kind = "Ok"

HasHeight(cp, h) == \E i \in 1..Len(cp) : cp[i].height = h

\* the caller's retry loop: apply; on CannotConnectError put the chain's block
\* at the named height into the update and apply again, at most `fuel` times.
\* TRUE when every such run ends in success and every error on the way names
\* a height the chain holds and the update lacks.
RECURSIVE RetryUntilOk(_, _, _)
RetryUntilOk(c, update, fuel) ==
    LET r == apply_update(c, update)
    IN  \/ r.kind = "Ok"
        \/ /\ r.kind = "Err"
           /\ fuel > 0
           /\ r.err.try_include_height \in DOMAIN c.index
           /\ ~HasHeight(update.tip, r.err.try_include_height)
           /\ \A u \in Augmented(c, update, r.err.try_include_height) :
                RetryUntilOk(c, u, fuel - 1)

\* C9 as amended: the error names a height h at which the chain holds a block
\* and the update has none; the retry with that block put in either succeeds
\* or fails naming another such height, and repeating the retry succeeds
\* after at most as many attempts as the chain has blocks.
C9_RetryEventuallySucceeds ==
    FailedWithCannotConnect =>
        RetryUntilOk(chain, last.arg, Cardinality(DOMAIN chain.index))

\* the first retry fails again, naming another height
C9_Witness ==
    /\ FailedWithCannotConnect
    /\ last.res.err.try_include_height \in DOMAIN chain.index
    /\ \E u \in Augmented(chain, last.arg, last.res.err.try_include_height) :
        apply_update(chain, u).kind = "Err"

\* the scenario "ambiguous connection": A, B, C, D are the hashes 1, 2, 3, 4
AmbiguousOrig == <<[height |-> 0, hash |-> 1], [height |-> 5, hash |-> 2]>>

AmbiguousUpdate == <<[height |-> 3, hash |-> 3], [height |-> 4, hash |-> 4]>>

AmbiguousScenario ==
    /\ mrg.phase = "done"
    /\ mrg.original_tip = AmbiguousOrig
    /\ mrg.update_tip = AmbiguousUpdate

\* C10 as stated: merging [3:C]->[4:D] into [0:A]->[5:B] fails with
\* try_include_height = 5.
C10_AmbiguousConnectionAsks5 == AmbiguousScenario => mrg.res = MergeErr(5)

\* C10 as amended: the merge fails with try_include_height = 0, the height of
\* the last original block the loop visited.
C10_AmbiguousConnectionAsks0 == AmbiguousScenario => mrg.res = MergeErr(0)

C10_Witness == AmbiguousScenario /\ mrg.res.kind = "Err"

\* ------------------------------------------ claims about merge_chains as
\* apply_update calls it on the chain's tip and the update's tip
UpdateCalled == last.op = "apply_update"

\* the outcome of the merge inside the recorded apply_update call
MergeOfCall ==
    merge_chains(last.pre.tip, last.arg.tip, last.arg.shared,
                 last.arg.introduce_older_blocks)

HeightsOf(cp) == {cp[i].height : i \in 1..Len(cp)}

BlocksOf(cp) == {cp[i] : i \in 1..Len(cp)}

HashAt(cp, h) == (CHOOSE b \in BlocksOf(cp) : b.height = h).hash

\* heights at which both lists hold the same block
AgreementHeights(orig, update) ==
    {b.height : b \in BlocksOf(orig) \cap BlocksOf(update)}

\* heights at which both lists hold a block, with different hashes
DifferingHeights(orig, update) ==
    {h \in HeightsOf(orig) \cap HeightsOf(update) : HashAt(orig, h) # HashAt(update, h)}

\* C11: a merge with introduce_older_blocks = false that succeeds on two
\* lists agreeing at height a returns a changeset with no key below a.
C11_NoKeyBelowAgreement ==
    (UpdateCalled /\ ~last.arg.introduce_older_blocks)
        => LET m == MergeOfCall
           IN  m.kind = "Ok"
                   => \A a \in AgreementHeights(last.pre.tip, last.arg.tip) :
                          \A k \in DOMAIN m.changeset : k >= a

\* the merge stopped at an agreement with keys above it, and the update holds
\* a block below it that the original lacks
C11_Witness ==
    /\ UpdateCalled /\ ~last.arg.introduce_older_blocks /\ MergeOfCall.kind = "Ok"
    /\ \E a \in AgreementHeights(last.pre.tip, last.arg.tip) :
        /\ \E k \in DOMAIN MergeOfCall.changeset : k > a
        /\ \E b \in BlocksOf(last.arg.tip) \ BlocksOf(last.pre.tip) : b.height < a

\* C12 as stated: whenever the merge succeeds, every height at which both
\* lists hold blocks with different hashes is a key mapped to the update's
\* hash, whatever introduce_older_blocks says.
C12_DifferingHeightsRewritten ==
    (UpdateCalled /\ DifferingHeights(last.pre.tip, last.arg.tip) # {})
        => LET m == MergeOfCall
           IN  m.kind = "Ok"
                   => \A h \in DifferingHeights(last.pre.tip, last.arg.tip) :
                          MapGet(m.changeset, h) = HashAt(last.arg.tip, h)

\* the heights the walk reaches: all of them when older blocks may be
\* introduced, those above the highest agreement otherwise
Visited(orig, update, introduce_older_blocks, h) ==
    introduce_older_blocks \/ \A a \in AgreementHeights(orig, update) : a < h

\* C12 amended: whenever the merge succeeds, every height at which both lists
\* hold blocks with different hashes is a key mapped to the update's hash if
\* introduce_older_blocks is true or the height is above every agreement.
C12_VisitedDifferingHeightsRewritten ==
    (UpdateCalled /\ DifferingHeights(last.pre.tip, last.arg.tip) # {})
        => LET m == MergeOfCall
           IN  m.kind = "Ok"
                   => \A h \in DifferingHeights(last.pre.tip, last.arg.tip) :
                          Visited(last.pre.tip, last.arg.tip,
                                  last.arg.introduce_older_blocks, h)
                              => MapGet(m.changeset, h) = HashAt(last.arg.tip, h)

\* a differing height below an agreement was rewritten
C12_Witness ==
    /\ UpdateCalled /\ MergeOfCall.kind = "Ok" /\ last.arg.introduce_older_blocks
    /\ \E h \in DifferingHeights(last.pre.tip, last.arg.tip) :
        /\ \E a \in AgreementHeights(last.pre.tip, last.arg.tip) : a > h
        /\ MapGet(MergeOfCall.changeset, h) = HashAt(last.arg.tip, h)

MaxHeightIn(hs) == CHOOSE m \in hs : \A x \in hs : x <= m

\* heights at which only the original list holds a block
OriginalOnlyHeights(orig, update) == HeightsOf(orig) \ HeightsOf(update)

MapsToNone(cs, h) == h \in DOMAIN cs /\ cs[h] = NoneHash

\* a merge that succeeded on lists that agree somewhere
MergedWithAgreement ==
    /\ UpdateCalled
    /\ AgreementHeights(last.pre.tip, last.arg.tip) # {}
    /\ MergeOfCall.kind = "Ok"

HighestAgreement == MaxHeightIn(AgreementHeights(last.pre.tip, last.arg.tip))

\* C13 as stated: whenever the merge succeeds having found an agreement,
\* every height above the highest agreement that only the original holds is
\* mapped to None.
C13_OriginalOnlyAboveAgreementIsNone ==
    MergedWithAgreement
        => LET m == MergeOfCall
           IN  \A h \in OriginalOnlyHeights(last.pre.tip, last.arg.tip) :
                   h > HighestAgreement => MapsToNone(m.changeset, h)

\* a height between the highest agreement and h at which the lists differ
DivergenceBelow(h) ==
    \E d \in DifferingHeights(last.pre.tip, last.arg.tip) :
        HighestAgreement < d /\ d < h

\* C13 amended: whenever the merge succeeds having found an agreement, every
\* height that only the original holds and that lies above a height where the
\* two lists differ, itself above the highest agreement, is mapped to None;
\* with introduce_older_blocks = false an original-only height above the
\* agreement with no such differing height is not a key.
C13_OriginalOnlyAboveDivergenceIsNone ==
    (UpdateCalled /\ AgreementHeights(last.pre.tip, last.arg.tip) # {}
        /\ \E h \in OriginalOnlyHeights(last.pre.tip, last.arg.tip) : h > HighestAgreement)
        => LET m == MergeOfCall
           IN  m.kind = "Ok"
                   => \A h \in OriginalOnlyHeights(last.pre.tip, last.arg.tip) :
                          h > HighestAgreement =>
                              IF DivergenceBelow(h)
                              THEN MapsToNone(m.changeset, h)
                              ELSE ~last.arg.introduce_older_blocks
                                       => h \notin DOMAIN m.changeset

\* an original-only block above a divergence above the agreement was
\* invalidated
C13_Witness ==
    /\ MergedWithAgreement
    /\ \E h \in OriginalOnlyHeights(last.pre.tip, last.arg.tip) :
        /\ h > HighestAgreement /\ DivergenceBelow(h)
        /\ MapsToNone(MergeOfCall.changeset, h)

\* ----------------------------------------------------- extend and reorg
TipBlock(cp) == cp[Len(cp)]

MinHeightIn(hs) == CHOOSE m \in hs : \A x \in hs : m <= x

HeightsAbove(cp, a) == {h \in HeightsOf(cp) : h > a}

\* the update's lowest block is a block of the original list, and the update
\* differs from the original at the next-higher original block, if any
ReorgShape(orig, update) ==
    /\ update[1] \in BlocksOf(orig)
    /\ HeightsAbove(orig, update[1].height) # {}
        => MinHeightIn(HeightsAbove(orig, update[1].height))
               \in DifferingHeights(orig, update)

\* Some(update's hash) for the update's blocks above height a, None for the
\* heights above a that only the original holds
ReorgChangeSet(orig, update, a) ==
    [h \in HeightsAbove(update, a) \cup HeightsAbove(orig, a) |->
        IF h \in HeightsOf(update) THEN HashAt(update, h) ELSE NoneHash]

\* the call succeeded with the reorg's changeset, the chain's tip is the
\* update's tip and nothing at or below height a changed
ReorgOutcome(a) ==
    /\ last.res.kind = "Ok"
    /\ last.res.changeset = ReorgChangeSet(last.pre.tip, last.arg.tip, a)
    /\ TipBlock(chain.tip) = TipBlock(last.arg.tip)
    /\ SplitOffKeep(chain.index, a + 1) = SplitOffKeep(last.pre.index, a + 1)
    /\ {b \in BlocksOf(chain.tip) : b.height <= a}
        = {b \in BlocksOf(last.pre.tip) : b.height <= a}

\* C14 as stated: an update whose lowest block is a block of the original and
\* which differs at the next-higher original block is applied with
\* introduce_older_blocks = false successfully, with exactly the changeset of
\* its blocks above the agreement and None for original-only heights above
\* it; the tip becomes the update's tip, blocks at or below stay.
C14_ExtendAndReorg ==
    (UpdateCalled /\ ~last.arg.introduce_older_blocks
        /\ ReorgShape(last.pre.tip, last.arg.tip))
        => ReorgOutcome(last.arg.tip[1].height)

\* C14 amended: the same, for updates whose lowest block is the only block
\* they share with the original.
C14_ExtendAndReorgFromOnlyAgreement ==
    (UpdateCalled /\ ~last.arg.introduce_older_blocks
        /\ ReorgShape(last.pre.tip, last.arg.tip)
        /\ BlocksOf(last.pre.tip) \cap BlocksOf(last.arg.tip) = {last.arg.tip[1]})
        => ReorgOutcome(last.arg.tip[1].height)

\* a reorg that replaced a block and invalidated an original-only block
C14_Witness ==
    /\ UpdateCalled /\ ~last.arg.introduce_older_blocks
    /\ ReorgShape(last.pre.tip, last.arg.tip)
    /\ BlocksOf(last.pre.tip) \cap BlocksOf(last.arg.tip) = {last.arg.tip[1]}
    /\ last.res.kind = "Ok"
    /\ \E h \in DOMAIN last.res.changeset : last.res.changeset[h] = NoneHash
    /\ \E h \in DOMAIN last.res.changeset : last.res.changeset[h] # NoneHash

\* ------------------------------------------------------ missing ancestors
\* the update's tip is the original's tip and every other update block is a
\* block of the original or sits at a height the original lacks
AncestorShape(orig, update) ==
    /\ TipBlock(update) = TipBlock(orig)
    /\ DifferingHeights(orig, update) = {}
    /\ HeightsOf(update) \ HeightsOf(orig) # {}

\* Some(hash) for the update's blocks at heights the original lacks
MissingAncestors(orig, update) ==
    [h \in HeightsOf(update) \ HeightsOf(orig) |-> HashAt(update, h)]

\* C15: when the update's tip is the original's tip and the update also holds
\* ancestors at heights the original lacks (its other blocks agreeing), the
\* merge with introduce_older_blocks = true returns exactly those ancestors
\* as Some(hash); with false the changeset is empty and the chain unchanged.
C15_MissingAncestors ==
    (UpdateCalled /\ AncestorShape(last.pre.tip, last.arg.tip))
        => IF last.arg.introduce_older_blocks
           THEN MergeOfCall = MergeOk(MissingAncestors(last.pre.tip, last.arg.tip))
           ELSE /\ MergeOfCall = MergeOk(EmptyMap)
                /\ last.res = Ok(last.pre, EmptyMap)
                /\ chain = last.pre

\* an ancestor the original lacked was introduced and applied
C15_Witness ==
    /\ UpdateCalled /\ AncestorShape(last.pre.tip, last.arg.tip)
    /\ last.arg.introduce_older_blocks
    /\ last.res.kind = "Ok"
    /\ last.res.changeset = MissingAncestors(last.pre.tip, last.arg.tip)
    /\ HeightsOf(chain.tip) = HeightsOf(last.pre.tip) \cup HeightsOf(last.arg.tip)

\* -------------------------------------------------- the single-block calls
\* C16: disconnect_from(block_id) returns the empty changeset and changes
\* nothing if the index does not hold block_id; otherwise, above height 0, it
\* returns None for every indexed height at or above block_id.height and the
\* index keeps exactly its entries below; from genesis it fails with
\* MissingGenesisError and changes nothing.
C16_DisconnectFrom ==
    last.op = "disconnect_from" =>
        IF MapGet(last.pre.index, last.arg.height) # last.arg.hash
        THEN last.res = Ok(last.pre, EmptyMap) /\ chain = last.pre
        ELSE IF last.arg.height > 0
        THEN /\ last.res.kind = "Ok"
             /\ last.res.changeset =
                    [h \in {k \in DOMAIN last.pre.index : k >= last.arg.height} |-> NoneHash]
             /\ chain.index = SplitOffKeep(last.pre.index, last.arg.height)
        ELSE last.res = Err(last.pre, MissingGenesisError) /\ chain = last.pre

\* C17: insert_block(block_id) returns the empty changeset and changes
\* nothing if the index holds the same hash at that height; fails with
\* AlterCheckPointError { height, original_hash, update_hash: Some(hash) } and
\* changes nothing if it holds another hash; otherwise succeeds, returns
\* { height -> Some(hash) } and the index is the old one plus that entry.
C17_InsertBlock ==
    last.op = "insert_block" =>
        IF last.arg.height \in DOMAIN last.pre.index
        THEN IF last.pre.index[last.arg.height] = last.arg.hash
             THEN last.res = Ok(last.pre, EmptyMap) /\ chain = last.pre
             ELSE /\ last.res = Err(last.pre,
                                    AlterCheckPointError(last.arg.height,
                                        last.pre.index[last.arg.height], last.arg.hash))
                  /\ chain = last.pre
        ELSE /\ last.res.kind = "Ok"
             /\ last.res.changeset = MapInsert(EmptyMap, last.arg.height, last.arg.hash)
             /\ chain.index = MapInsert(last.pre.index, last.arg.height, last.arg.hash)

\* C18: is_block_in_chain(block, chain_tip) returns None when block.height is
\* above chain_tip.height or the index lacks either height; otherwise
\* Some(true) exactly when the index holds block.hash at block.height and
\* chain_tip.hash at chain_tip.height, Some(false) when either hash differs;
\* it never fails and never changes the chain.
C18_IsBlockInChain ==
    last.op = "is_block_in_chain" =>
        LET block == last.arg.block
            chain_tip == last.arg.chain_tip
            index == last.pre.index
        IN  /\ last.res.kind = "Ok"
            /\ chain = last.pre
            /\ (block.height > chain_tip.height
                    \/ {block.height, chain_tip.height} \ DOMAIN index # {})
                   => last.res.value = "None"
            /\ (block.height <= chain_tip.height
                    /\ {block.height, chain_tip.height} \subseteq DOMAIN index)
                   => /\ last.res.value \in {"Some(true)", "Some(false)"}
                      /\ last.res.value = "Some(true)"
                            <=> (index[block.height] = block.hash
                                    /\ index[chain_tip.height] = chain_tip.hash)

\* a block at the height of chain_tip found in the chain
C18_Witness ==
    /\ last.op = "is_block_in_chain"
    /\ last.arg.block.height = last.arg.chain_tip.height
    /\ last.res.value = "Some(true)"

\* the blocks of the recorded apply_header_connected_to call
HeaderThis == [height |-> last.arg.height, hash |-> last.arg.header.block_hash]

HeaderPrev ==
    IF last.arg.height > 0
    THEN <<[height |-> last.arg.height - 1, hash |-> last.arg.header.prev_blockhash]>>
    ELSE << >>

ConnectedToIsRedundant ==
    last.arg.connected_to = HeaderThis \/ <<last.arg.connected_to>> = HeaderPrev

\* C19: apply_header_connected_to returns InconsistentBlocks exactly when
\* connected_to is neither `this` nor `prev` and its height is not strictly
\* below height - 1; otherwise it applies, with introduce_older_blocks =
\* false, the update [connected_to unless redundant, prev if height > 0, this]
\* and returns what apply_update returns.
C19_ApplyHeaderConnectedTo ==
    last.op = "apply_header_connected_to" =>
        IF ~ConnectedToIsRedundant /\ ~(last.arg.connected_to.height < last.arg.height - 1)
        THEN last.res = Err(last.pre, InconsistentBlocks) /\ chain = last.pre
        ELSE /\ ~(last.res.kind = "Err" /\ last.res.err = InconsistentBlocks)
             /\ last.res =
                    apply_update(last.pre,
                        [tip |-> (IF ConnectedToIsRedundant THEN << >>
                                  ELSE <<last.arg.connected_to>>)
                                     \o HeaderPrev \o <<HeaderThis>>,
                         shared |-> 0,
                         introduce_older_blocks |-> FALSE])

\* a header applied through a connected_to two or more blocks below it
C19_Witness ==
    /\ last.op = "apply_header_connected_to"
    /\ ~ConnectedToIsRedundant
    /\ last.res.kind = "Ok"
    /\ {last.arg.height, last.arg.height - 1} \subseteq DOMAIN last.res.changeset
    /\ chain # last.pre

\* ---------------------------------------------------------- from_block_id
FromBlockIdCalled == last.op = "from_block_id"

\* what every call of from_block_id returns: the index holds block_id, the
\* birthday is its height, the tip is block_id alone and the changeset is the
\* index
FromBlockIdCommon ==
    /\ last.res.kind = "Ok"
    /\ chain = last.res.chain
    /\ DOMAIN chain.index = {0, last.arg.block_id.height}
    /\ chain.index[last.arg.block_id.height] = last.arg.block_id.hash
    /\ chain.birthday = last.arg.block_id.height
    /\ chain.tip = <<last.arg.block_id>>
    /\ last.res.changeset = chain.index

\* C20 as stated: for every genesis_hash and block_id, height 0 with another
\* hash included, the index of the returned chain contains (0, genesis_hash)
\* and (block_id.height, block_id.hash), the birthday is block_id.height, the
\* tip is block_id with no prev, and the changeset is exactly the index.
C20_FromBlockId ==
    FromBlockIdCalled
        => FromBlockIdCommon /\ chain.index[0] = last.arg.genesis_hash

\* ----------------------------------------------------- CheckPoint handles
\* C21: a handle captured from tip() keeps yielding, after any later
\* sequence of apply_update, apply_changeset, insert_block and
\* disconnect_from, the descending sequence of blocks it yielded when it was
\* captured.
C21_HandleKeepsItsHistory ==
    arena.phase = "on" => HeapIter(arena.heap, arena.handle) = arena.captured

\* a mutator has replaced the tip while the handle was held: the chain's
\* list is no longer what the handle yields
C21_Witness ==
    /\ arena.phase = "on"
    /\ last.op \in {"apply_update", "apply_changeset", "insert_block", "disconnect_from"}
    /\ last.res.kind = "Ok"
    /\ DOMAIN last.res.changeset # {}
    /\ arena.handle # arena.tip
    /\ HeapIter(arena.heap, arena.tip) # arena.captured
    /\ HeapIter(arena.heap, arena.tip) = ReverseSeq(chain.tip)

ExtendCalled == last.op = "extend"

\* the heights of the blocks handed to extend are strictly increasing and
\* start above the handle's height
Extendable(yielded, blocks) ==
    /\ \A i \in 1..(Len(blocks) - 1) : blocks[i].height < blocks[i + 1].height
    /\ blocks # << >> => yielded[1].height < blocks[1].height

\* C22: extend(seq) succeeds exactly when the heights of seq are strictly
\* increasing and start above the handle's height, and then yields the
\* original list followed by seq; otherwise it returns as error the handle it
\* was called on, with nothing of the pushed prefix.
C22_ExtendIsAtomic ==
    ExtendCalled =>
        LET yielded == HeapIter(arena.heap, arena.handle)
        IN  IF Extendable(yielded, last.arg)
            THEN /\ last.res.kind = "Ok"
                 /\ last.res.yields = ReverseSeq(last.arg) \o yielded
            ELSE /\ last.res.kind = "Err"
                 /\ last.res.is_self
                 /\ last.res.yields = yielded

\* extend failed on its second block after the first had been pushed
C22_Witness ==
    /\ ExtendCalled
    /\ Len(last.arg) >= 2
    /\ HeapIter(arena.heap, arena.handle)[1].height < last.arg[1].height
    /\ last.res.kind = "Err"
    /\ last.res.is_self

IsMatureCalled == last.op = "is_mature"

\* C23: is_mature is true for every output that is not on a coinbase; for a
\* confirmed coinbase output it is false exactly when tip minus the
\* confirmation-height upper bound, saturating at zero, is below 99, and
\* age + 1 never overflows; for an unconfirmed coinbase output it is false.
C23_IsMature ==
    IsMatureCalled =>
        LET txout == last.arg.txout
            tip == last.arg.tip
            age == saturating_sub(tip, txout.chain_position.anchor.upper_bound)
        IN  IF ~txout.is_on_coinbase THEN last.res.value = TRUE
            ELSE IF txout.chain_position.variant = "Unconfirmed"
            THEN last.res.value = FALSE
            ELSE /\ (last.res.value = FALSE) <=> U32Lt(age, U32Small(99))
                 /\ age # U32Max

SpendableCalled == last.op = "is_confirmed_and_spendable"

\* the three conditions on the output itself: mature at tip, Confirmed, and
\* its confirmation-height upper bound at most tip
ConfirmedAt(txout, tip) ==
    /\ is_mature(txout, tip)
    /\ txout.chain_position.variant = "Confirmed"
    /\ U32Le(txout.chain_position.anchor.upper_bound, tip)

SpenderAnchoredAbove(txout, tip) ==
    /\ txout.spent_by.variant = "Confirmed"
    /\ U32Lt(tip, txout.spent_by.anchor.anchor_height)

\* C24: is_confirmed_and_spendable is true exactly when the output is mature
\* at tip, Confirmed, its upper bound is at most tip, and it is unspent or
\* spent by a transaction whose anchor-block height is above tip.
C24_ConfirmedAndSpendable ==
    SpendableCalled =>
        LET txout == last.arg.txout
            tip == last.arg.tip
        IN  last.res.value <=>
                /\ ConfirmedAt(txout, tip)
                /\ \/ txout.spent_by.variant = "None"
                   \/ SpenderAnchoredAbove(txout, tip)

\* C24, amended: is_confirmed_and_spendable is true exactly when the output
\* is mature at tip, Confirmed, its upper bound is at most tip, and it is
\* unspent, spent by an unconfirmed transaction, or spent by a transaction
\* whose anchor-block height is above tip.
C24_SpendableUnlessSpentWithinTip ==
    SpendableCalled =>
        LET txout == last.arg.txout
            tip == last.arg.tip
        IN  last.res.value <=>
                /\ ConfirmedAt(txout, tip)
                /\ \/ txout.spent_by.variant = "None"
                   \/ txout.spent_by.variant = "Unconfirmed"
                   \/ SpenderAnchoredAbove(txout, tip)

C24_Witness ==
    /\ SpendableCalled
    /\ last.arg.txout.is_on_coinbase
    /\ last.arg.txout.spent_by.variant = "Unconfirmed"
    /\ last.res.value = TRUE

CmpCalled == last.op = "cmp"

\* C25: every Unconfirmed(t) is below every Confirmed(a), and two positions
\* of the same variant are ordered by their payload.
C25_UnconfirmedBelowConfirmed ==
    CmpCalled =>
        LET p == last.arg.p
            q == last.arg.q
        IN  /\ (p.variant = "Unconfirmed" /\ q.variant = "Confirmed")
                => last.res.value = Less
            /\ (p.variant = "Confirmed" /\ q.variant = "Unconfirmed")
                => last.res.value = Greater
            /\ (p.variant = "Confirmed" /\ q.variant = "Confirmed")
                => last.res.value = CmpInt(p.anchor.key, q.anchor.key)
            /\ (p.variant = "Unconfirmed" /\ q.variant = "Unconfirmed")
                => last.res.value = CmpInt(p.last_seen, q.last_seen)

\* C25, amended: every Confirmed(a) is below every Unconfirmed(t), and two
\* positions of the same variant are ordered by their payload.
C25_ConfirmedBelowUnconfirmed ==
    CmpCalled =>
        LET p == last.arg.p
            q == last.arg.q
        IN  /\ (p.variant = "Confirmed" /\ q.variant = "Unconfirmed")
                => last.res.value = Less
            /\ (p.variant = "Unconfirmed" /\ q.variant = "Confirmed")
                => last.res.value = Greater
            /\ (p.variant = "Confirmed" /\ q.variant = "Confirmed")
                => last.res.value = CmpInt(p.anchor.key, q.anchor.key)
            /\ (p.variant = "Unconfirmed" /\ q.variant = "Unconfirmed")
                => last.res.value = CmpInt(p.last_seen, q.last_seen)

C25_Witness ==
    /\ CmpCalled
    /\ last.arg.p.variant = "Confirmed"
    /\ last.arg.q.variant = "Unconfirmed"
    /\ last.arg.p.anchor.key > last.arg.q.last_seen
    /\ last.res.value = Less

MatchCalled == last.op = "match"

\* the four arms as conditions on the two cursors
UpdateOnly(o, u) == u.some /\ (~o.some \/ u.block.height > o.block.height)

OriginalOnly(o, u) == o.some /\ (~u.some \/ o.block.height > u.block.height)

EqualHeight(o, u) == o.some /\ u.some /\ o.block.height = u.block.height

BothExhausted(o, u) == ~o.some /\ ~u.some

\* C27: the arm of merge_chains marked unreachable is never taken; for every
\* pair of cursors, each absent or holding a block of any height and hash,
\* exactly one of the arms update-only, original-only, equal-height and
\* both-exhausted applies, and it is the arm the match runs.
C27_MatchIsExhaustive ==
    MatchCalled =>
        LET o == last.arg.o
            u == last.arg.u
            applying == {a \in {"update_only", "original_only", "both", "none"} :
                            \/ a = "update_only" /\ UpdateOnly(o, u)
                            \/ a = "original_only" /\ OriginalOnly(o, u)
                            \/ a = "both" /\ EqualHeight(o, u)
                            \/ a = "none" /\ BothExhausted(o, u)}
        IN  /\ last.res.value # "unreachable"
            /\ applying = {last.res.value}

C27_Witness ==
    /\ MatchCalled
    /\ ~last.arg.o.some
    /\ last.arg.u.some
    /\ last.arg.u.block.height = 0
    /\ last.res.value = "update_only"

ApplyHeaderCalled == last.op = "apply_header"

\* C28: apply_header never reaches its unreachable branch: for every chain,
\* header and height, height 0 included, the inner apply_header_connected_to
\* does not return InconsistentBlocks, and apply_header succeeds or returns
\* a CannotConnectError.
C28_ApplyHeaderIsConsistent ==
    ApplyHeaderCalled =>
        /\ apply_header_connected_to(last.pre, last.arg.header, last.arg.height,
               IF last.arg.height >= 1
               THEN [height |-> last.arg.height - 1,
                     hash |-> last.arg.header.prev_blockhash]
               ELSE [height |-> 0, hash |-> last.arg.header.block_hash]).err
             # InconsistentBlocks
        /\ \/ last.res.kind = "Ok"
           \/ last.res.kind = "Err" /\ last.res.err.kind = "CannotConnectError"

C28_Witness ==
    /\ ApplyHeaderCalled
    /\ last.arg.height = 0
    /\ last.arg.header.block_hash # last.arg.header.prev_blockhash
    /\ last.res.kind = "Ok"

\* the error apply_update makes of a MissingGenesisError from apply_changeset
FallbackTaken ==
    /\ UpdateCalled
    /\ MergeOfCall.kind = "Ok"
    /\ last.res.kind = "Err"
    /\ last.res.err = CannotConnectError(0)

\* C29: on a chain whose checkpoint list contains the block at height 0, the
\* ChangeSet of a successful merge_chains never maps height 0 to None, and
\* apply_update does not fail once merge_chains has succeeded; the fallback
\* CannotConnectError { try_include_height: 0 } is taken only on a chain
\* whose list lacks genesis.
C29_FallbackNeedsMissingGenesis ==
    UpdateCalled =>
        LET m == MergeOfCall
        IN  (m.kind = "Ok" /\ 0 \in HeightsOf(last.pre.tip)) =>
                /\ ~MapsToNone(m.changeset, 0)
                /\ last.res.kind = "Ok"
                /\ ~FallbackTaken

C29_Witness ==
    /\ UpdateCalled
    /\ 0 \in HeightsOf(last.pre.tip)
    /\ Len(last.pre.tip) >= 2
    /\ last.res.kind = "Ok"
    /\ 0 \in DOMAIN last.res.changeset
    /\ \E h \in DOMAIN last.res.changeset : last.res.changeset[h] = NoneHash

\* the fallback is taken on a chain built by from_block_id
C29_FallbackWitness ==
    /\ FallbackTaken
    /\ 0 \notin HeightsOf(last.pre.tip)

\* a differing height below h that the walk reaches before it comes to h's
\* connection: none of the lists' agreements lies between the two
InvalidatedFromBelow(orig, update, h) ==
    \E d \in DifferingHeights(orig, update) :
        /\ d < h
        /\ ~\E a \in AgreementHeights(orig, update) : d < a /\ a < h

\* C30: whenever merge_chains fails with CannotConnectError
\* { try_include_height: h }, the original list holds a block at height h,
\* the update holds none at that height, and no lower differing block had
\* invalidated it.
C30_ErrorNamesOriginalOnlyBlock ==
    (UpdateCalled /\ last.res.kind = "Err") =>
        LET m == MergeOfCall
        IN  m.kind = "Err" =>
                /\ m.err.try_include_height
                       \in OriginalOnlyHeights(last.pre.tip, last.arg.tip)
                /\ ~InvalidatedFromBelow(last.pre.tip, last.arg.tip,
                                         m.err.try_include_height)

\* the merge fails at an agreement below an original-only block, after one
\* original-only block above was invalidated
C30_Witness ==
    /\ UpdateCalled
    /\ MergeOfCall.kind = "Err"
    /\ \E a \in AgreementHeights(last.pre.tip, last.arg.tip) :
           a < MergeOfCall.err.try_include_height
    /\ \E k \in HeightsOf(last.arg.tip) : k > MergeOfCall.err.try_include_height

\* C26: the ChangeSet of a successful apply_update is minimal with respect to
\* the index before the call: an entry h -> Some(x) has index[h] absent or
\* different from x, and an entry h -> None has h in the index.
C26_ChangeSetIsMinimal ==
    (UpdateCalled /\ last.res.kind = "Ok") =>
        \A h \in DOMAIN last.res.changeset :
            IF last.res.changeset[h] = NoneHash
            THEN h \in DOMAIN last.pre.index
            ELSE MapGet(last.pre.index, h) # last.res.changeset[h]

\* the index holds the block: its height is a key mapped to its hash
Indexed(c, block) ==
    block.height \in DOMAIN c.index /\ c.index[block.height] = block.hash

\* C31: after every successful apply_update the update's tip block is in the
\* chain's index, and with introduce_older_blocks = true every block of the
\* update is in the index with the update's hash.
C31_UpdateBlocksAreIndexed ==
    (UpdateCalled /\ last.res.kind = "Ok") =>
        /\ chain = last.res.chain
        /\ Indexed(chain, TipBlock(last.arg.tip))
        /\ last.arg.introduce_older_blocks =>
               \A b \in BlocksOf(last.arg.tip) : Indexed(chain, b)

\* an update with older blocks introduced: one below an agreement replaces
\* the chain's block, another is new to the chain
C31_Witness ==
    /\ UpdateCalled
    /\ last.res.kind = "Ok"
    /\ last.arg.introduce_older_blocks
    /\ Len(last.arg.tip) >= 3
    /\ \E a \in AgreementHeights(last.pre.tip, last.arg.tip) :
           \E b \in BlocksOf(last.arg.tip) :
               /\ b.height < a
               /\ ~Indexed(last.pre, b)
               /\ Indexed(chain, b)

====
